---- MODULE Spec2Model ----
(***************************************************************************)
(* A model of mypy/server/astdiff.py: the snapshot builder                 *)
(* (snapshot_symbol_table, snapshot_definition, snapshot_type) and the     *)
(* snapshot comparator (compare_symbol_table_snapshots).                   *)
(*                                                                         *)
(* Python values are modelled as tagged records (field py), so that values *)
(* of different Python types can sit in one tuple and be compared:         *)
(*   None, bool, int, str, tuple, list, dict, a reference to a live list   *)
(*   object, and a raised exception.                                       *)
(* A Python string is a sequence of atoms: the dot-separated components of *)
(* a (qualified) name, so 'builtins.int' is <<"builtins", "int">>.         *)
(***************************************************************************)
EXTENDS Integers, Sequences, FiniteSets, TLC

VARIABLES
    typA,       \* SpecType: a type object
    typB,       \* SpecType: a second type object, built from typA
    outA,       \* SpecType: snapshot_type(typA), or NotRun
    outB,       \* SpecType: snapshot_type(typB), or NotRun
    tpc,        \* SpecType: "leaf" | "wrapped" | "union" | "vary" | "done"
    module_names, \* the module's symbol table (MypyFile.names)
    infos,      \* the heap of TypeInfo objects, by id
    lists,      \* the heap of list objects, by id
    module_names0, \* the module's symbol table when snap was taken
    infos0,     \* the heap of TypeInfo objects when snap was taken
    lists0,     \* the heap of list objects when snap was taken
    snap,       \* the snapshot of the old version, as returned (a value graph)
    snapAtReturn, \* the value snap had when snapshot_symbol_table returned it
    snap2,      \* the snapshot of the new version
    triggers,   \* the result of compare_symbol_table_snapshots
    pc,         \* "live" | "snapped" | "edited" | "compared" | "failed"
    stack,      \* SpecWalk: the active calls of snapshot_symbol_table, outermost first
    walked,     \* SpecWalk: what the outermost call returned or raised, or NotRun
    wpc         \* SpecWalk: "setup" | "ready" | "walking" | "done" | "failed"

typeVars == <<typA, typB, outA, outB, tpc>>
tableVars == <<module_names, infos, lists>>
driverVars == <<module_names0, infos0, lists0, snap, snapAtReturn, snap2, triggers, pc>>
walkVars == <<stack, walked, wpc>>
vars == <<typeVars, tableVars, driverVars, walkVars>>

(***************************************************************************)
(* Bounds of the model.                                                    *)
(***************************************************************************)
MaxUnionLen == 3
MaxListLen == 2

(***************************************************************************)
(* Python values.                                                          *)
(***************************************************************************)
PyNone == [py |-> "None"]
PyBool(b) == [py |-> "bool", b |-> b]
PyInt(i) == [py |-> "int", i |-> i]
PyStr(s) == [py |-> "str", s |-> s]
PyTuple(items) == [py |-> "tuple", items |-> items]
PyList(items) == [py |-> "list", items |-> items]
PyRef(id) == [py |-> "ref", id |-> id]
PyDict(d) == [py |-> "dict", d |-> d]
Raise(exc) == [py |-> "raise", exc |-> exc]
NotRun == [py |-> "notrun"]

IsRaise(v) == v.py = "raise"
AnyRaise(parts) == \E i \in DOMAIN parts : IsRaise(parts[i])
\* The exception that leaves a sequence of evaluations: the first one raised.
FirstRaise(parts) ==
    parts[CHOOSE i \in DOMAIN parts :
              IsRaise(parts[i]) /\ \A j \in DOMAIN parts : j < i => ~IsRaise(parts[j])]

\* A tuple display (a, b, ...), a list display and a dict built entry by
\* entry: the items are evaluated in order, and an exception raised by one of
\* them leaves the expression.
PyTupleOf(items) == IF AnyRaise(items) THEN FirstRaise(items) ELSE PyTuple(items)
PyListOf(items) == IF AnyRaise(items) THEN FirstRaise(items) ELSE PyList(items)
PyDictOf(d) ==
    IF \E name \in DOMAIN d : IsRaise(d[name])
    THEN d[CHOOSE name \in DOMAIN d : IsRaise(d[name])]
    ELSE PyDict(d)

(***************************************************************************)
(* Python's order on strings, restricted to the atoms the model uses       *)
(* (code point order: upper case before lower case).                       *)
(***************************************************************************)
AtomOrder ==
    <<"AnyType", "CallableType", "DeletedType", "ErasedType", "Instance",
      "NoneTyp", "Overloaded", "T", "TupleType", "TypeType", "TypeVar",
      "TypedDictType", "U", "UnboundType", "UninhabitedType", "UnionType",
      "a", "b", "builtins", "int", "k", "list", "m", "object", "str", "x", "y", "z">>
AtomRank(a) == CHOOSE i \in DOMAIN AtomOrder : AtomOrder[i] = a

Min(a, b) == IF a < b THEN a ELSE b

\* str.__lt__ and friends: "lt", "eq" or "gt".
StrCmp(s, t) ==
    LET n == Min(Len(s), Len(t))
        diff == {i \in 1..n : s[i] # t[i]}
    IN  IF diff = {}
        THEN IF Len(s) < Len(t) THEN "lt" ELSE IF Len(s) > Len(t) THEN "gt" ELSE "eq"
        ELSE LET i == CHOOSE k \in diff : \A l \in diff : k <= l
             IN  IF AtomRank(s[i]) < AtomRank(t[i]) THEN "lt" ELSE "gt"

IntOf(v) == IF v.py = "bool" THEN (IF v.b THEN 1 ELSE 0) ELSE v.i

\* Python's rich comparison a < b on snapshot values: "lt", "eq", "gt", or
\* "TypeError" where Python 3 refuses to order the operands (None against
\* str, str against tuple, ...).  Tuples compare by their first differing
\* item, then by length.
RECURSIVE PyCmp(_, _)
PyCmp(a, b) ==
    IF a.py = "str" /\ b.py = "str" THEN StrCmp(a.s, b.s)
    ELSE IF a.py \in {"bool", "int"} /\ b.py \in {"bool", "int"}
    THEN IF IntOf(a) < IntOf(b) THEN "lt" ELSE IF IntOf(a) > IntOf(b) THEN "gt" ELSE "eq"
    ELSE IF a.py = "tuple" /\ b.py = "tuple"
    THEN LET n == Min(Len(a.items), Len(b.items))
             diff == {i \in 1..n : a.items[i] # b.items[i]}
         IN  IF diff = {}
             THEN IF Len(a.items) < Len(b.items) THEN "lt"
                  ELSE IF Len(a.items) > Len(b.items) THEN "gt" ELSE "eq"
             ELSE LET i == CHOOSE k \in diff : \A l \in diff : k <= l
                  IN  PyCmp(a.items[i], b.items[i])
    ELSE "TypeError"

\* The sorted sequence of a set whose members Python can order pairwise.
RECURSIVE SortedSeq(_)
SortedSeq(S) ==
    IF S = {} THEN <<>>
    ELSE LET least == CHOOSE v \in S : \A w \in S \ {v} : PyCmp(v, w) = "lt"
         IN  <<least>> \o SortedSeq(S \ {least})

\* sorted(S) of a set S.  A comparison sort compares every two neighbours of
\* its result, and among values ordered item by item two values Python
\* cannot order have such neighbours between them: sorted raises TypeError
\* exactly when S holds two values that Python cannot order.
sorted(S) ==
    IF \E v, w \in S : v # w /\ PyCmp(v, w) = "TypeError"
    THEN Raise("TypeError")
    ELSE PyTuple(SortedSeq(S))

(***************************************************************************)
(* Types (mypy.types).  A type object is a record with its class in t.     *)
(***************************************************************************)
Absent == [t |-> "absent"]            \* None, where an Optional[Type] is read
AnyType == [t |-> "AnyType"]
NoneTyp == [t |-> "NoneTyp"]
UninhabitedType == [t |-> "UninhabitedType"]
ErasedType == [t |-> "ErasedType"]
DeletedType == [t |-> "DeletedType"]
PartialType == [t |-> "PartialType"]
UnboundType(name, optional, empty_tuple_index, args) ==
    [t |-> "UnboundType", name |-> name, optional |-> optional,
     empty_tuple_index |-> empty_tuple_index, args |-> args]
Instance(fullname, args) == [t |-> "Instance", type |-> fullname, args |-> args]
TypeVarType(name, fullname, raw_id, meta_level, values, upper_bound, variance) ==
    [t |-> "TypeVarType", name |-> name, fullname |-> fullname, raw_id |-> raw_id,
     meta_level |-> meta_level, values |-> values, upper_bound |-> upper_bound,
     variance |-> variance]
CallableType(arg_types, ret_type, arg_names, arg_kinds, type_obj, ellipsis, variables) ==
    [t |-> "CallableType", arg_types |-> arg_types, ret_type |-> ret_type,
     arg_names |-> arg_names, arg_kinds |-> arg_kinds, is_type_obj |-> type_obj,
     is_ellipsis_args |-> ellipsis, variables |-> variables]
TupleType(items) == [t |-> "TupleType", items |-> items]
TypedDictType(items, required_keys) ==
    [t |-> "TypedDictType", items |-> items, required_keys |-> required_keys]
UnionType(items) == [t |-> "UnionType", items |-> items]
Overloaded(items) == [t |-> "Overloaded", items |-> items]
TypeType(item) == [t |-> "TypeType", item |-> item]

(***************************************************************************)
(* SnapshotTypeVisitor.                                                    *)
(***************************************************************************)
RECURSIVE snapshot_type(_)

snapshot_types(types) ==
    PyTupleOf([i \in 1..Len(types) |-> snapshot_type(types[i])])

snapshot_simple_type(typ) == PyTuple(<<PyStr(<<typ.t>>)>>)

snapshot_optional_type(typ) ==
    IF typ # Absent THEN snapshot_type(typ) ELSE PyNone

visit_unbound_type(typ) ==
    PyTupleOf(<<PyStr(<<"UnboundType">>), PyStr(typ.name), PyBool(typ.optional),
                PyBool(typ.empty_tuple_index), snapshot_types(typ.args)>>)

visit_instance(typ) ==
    PyTupleOf(<<PyStr(<<"Instance">>), PyStr(typ.type), snapshot_types(typ.args)>>)

visit_type_var(typ) ==
    PyTupleOf(<<PyStr(<<"TypeVar">>), PyStr(typ.name), PyStr(typ.fullname),
                PyInt(typ.raw_id), PyInt(typ.meta_level),
                snapshot_types(typ.values), snapshot_type(typ.upper_bound),
                PyInt(typ.variance)>>)

visit_callable_type(typ) ==
    PyTupleOf(<<PyStr(<<"CallableType">>),
                snapshot_types(typ.arg_types), snapshot_type(typ.ret_type),
                PyTuple(typ.arg_names),
                PyTuple([i \in 1..Len(typ.arg_kinds) |-> PyInt(typ.arg_kinds[i])]),
                PyBool(typ.is_type_obj), PyBool(typ.is_ellipsis_args)>>)

visit_tuple_type(typ) ==
    PyTupleOf(<<PyStr(<<"TupleType">>), snapshot_types(typ.items)>>)

visit_typeddict_type(typ) ==
    PyTupleOf(<<PyStr(<<"TypedDictType">>),
                PyTupleOf([i \in 1..Len(typ.items) |->
                              PyTupleOf(<<PyStr(typ.items[i][1]),
                                          snapshot_type(typ.items[i][2])>>)]),
                sorted({PyStr(k) : k \in typ.required_keys})>>)

\* sorted(items) of the set items = {snapshot_type(item) for item in typ.items},
\* given the snapshots of the members in order.
sorted_items(parts) ==
    IF AnyRaise(parts) THEN FirstRaise(parts)
    ELSE sorted({parts[i] : i \in DOMAIN parts})

visit_union_type(typ) ==
    PyTupleOf(<<PyStr(<<"UnionType">>),
                sorted_items([i \in 1..Len(typ.items) |-> snapshot_type(typ.items[i])])>>)

visit_overloaded(typ) ==
    PyTupleOf(<<PyStr(<<"Overloaded">>), snapshot_types(typ.items)>>)

visit_partial_type(typ) == Raise("RuntimeError")

visit_type_type(typ) ==
    PyTupleOf(<<PyStr(<<"TypeType">>), snapshot_type(typ.item)>>)

\* typ.accept(SnapshotTypeVisitor()): dispatch on the class of typ.
snapshot_type(typ) ==
    CASE typ.t = "UnboundType" -> visit_unbound_type(typ)
      [] typ.t \in {"AnyType", "NoneTyp", "UninhabitedType", "ErasedType", "DeletedType"}
                                 -> snapshot_simple_type(typ)
      [] typ.t = "Instance" -> visit_instance(typ)
      [] typ.t = "TypeVarType" -> visit_type_var(typ)
      [] typ.t = "CallableType" -> visit_callable_type(typ)
      [] typ.t = "TupleType" -> visit_tuple_type(typ)
      [] typ.t = "TypedDictType" -> visit_typeddict_type(typ)
      [] typ.t = "UnionType" -> visit_union_type(typ)
      [] typ.t = "Overloaded" -> visit_overloaded(typ)
      [] typ.t = "PartialType" -> visit_partial_type(typ)
      [] typ.t = "TypeType" -> visit_type_type(typ)

\* Some types.
IntT == Instance(<<"builtins", "int">>, <<>>)
StrT == Instance(<<"builtins", "str">>, <<>>)
ObjT == Instance(<<"builtins", "object">>, <<>>)
\* def (x: int) -> int, Callable[[int], int], and def [T] (x: int) -> int
CallNamed == CallableType(<<IntT>>, IntT, <<PyStr(<<"x">>)>>, <<0>>, FALSE, FALSE, <<>>)
CallAnon == CallableType(<<IntT>>, IntT, <<PyNone>>, <<0>>, FALSE, FALSE, <<>>)
CallGeneric == CallableType(<<IntT>>, IntT, <<PyStr(<<"x">>)>>, <<0>>, FALSE, FALSE, <<"T">>)
TVarT == TypeVarType(<<"T">>, <<"m", "T">>, 1, 0, <<>>, ObjT, 0)
UnboundX == UnboundType(<<"x">>, FALSE, FALSE, <<>>)

(***************************************************************************)
(* Symbol tables (mypy.nodes).                                             *)
(*                                                                         *)
(* A SymbolTable is a function from the names it defines to               *)
(* SymbolTableNodes.  TypeInfo objects live in the heap infos and are      *)
(* referred to by id, so that a member table can refer to its own class or *)
(* to an enclosing one.  The two list attributes that the builder reads    *)
(* without copying (TypeInfo.type_vars, SymbolTableNode.alias_tvars) are   *)
(* list objects of the heap lists, referred to by id.                      *)
(***************************************************************************)
SymbolTableNode(kind, node, module_public, normalized, alias_tvars, type_override) ==
    [kind |-> kind, node |-> node, module_public |-> module_public,
     normalized |-> normalized, alias_tvars |-> alias_tvars,
     type_override |-> type_override]

NoNode == [n |-> "None"]
MypyFile(fullname) == [n |-> "MypyFile", fullname |-> fullname]
TypeVarExpr(fullname, variance, values, upper_bound) ==
    [n |-> "TypeVarExpr", fullname |-> fullname, variance |-> variance,
     values |-> values, upper_bound |-> upper_bound]
FuncItem(fullname, type, arg_names, arg_kinds, is_property) ==
    [n |-> "FuncItem", fullname |-> fullname, type |-> type, arg_names |-> arg_names,
     arg_kinds |-> arg_kinds, is_property |-> is_property]
OverloadedFuncDef(fullname, type, items, is_property) ==
    [n |-> "OverloadedFuncDef", fullname |-> fullname, type |-> type, items |-> items,
     is_property |-> is_property]
Var(fullname, type) == [n |-> "Var", fullname |-> fullname, type |-> type]
Decorator(is_overload, var, func) ==
    [n |-> "Decorator", is_overload |-> is_overload, var |-> var, func |-> func]
TypeInfo(id) == [n |-> "TypeInfo", id |-> id]

\* node.fullname()
fullname(node) ==
    IF node.n = "TypeInfo" THEN infos[node.id].fullname
    ELSE IF node.n = "Decorator" THEN node.func.fullname
    ELSE node.fullname

\* mypy.util.get_prefix: a qualified name without its last component.
get_prefix(name) == SubSeq(name, 1, Len(name) - 1)

\* '%s.%s' % (name_prefix, name)
Qualified(name_prefix, name) == Append(name_prefix, name)

SeqOfStr(names) == [i \in 1..Len(names) |-> PyStr(<<names[i]>>)]
SeqOfInt(ints) == [i \in 1..Len(ints) |-> PyInt(ints[i])]

RECURSIVE snapshot_symbol_table(_, _)
RECURSIVE snapshot_definition(_, _)

\* snapshot_untyped_signature of one item of an overloaded function.
snapshot_untyped_item(item) ==
    IF item.n = "Decorator"
    THEN IF item.var.type # Absent
         THEN snapshot_type(item.var.type)
         ELSE PyTuple(<<PyStr(<<"DecoratorWithoutType">>)>>)
    ELSE PyTuple(<<PyTuple(item.arg_names), PyTuple(SeqOfInt(item.arg_kinds))>>)

snapshot_untyped_signature(func) ==
    IF func.n = "FuncItem"
    THEN PyTuple(<<PyTuple(func.arg_names), PyTuple(SeqOfInt(func.arg_kinds))>>)
    ELSE PyTupleOf([i \in 1..Len(func.items) |-> snapshot_untyped_item(func.items[i])])

\* The attrs tuple of a TypeInfo (lines 189-199), evaluated left to right.
snapshot_attrs(info) ==
    PyTupleOf(<<PyBool(info.is_abstract),
                PyBool(info.is_enum),
                PyBool(info.fallback_to_any),
                PyBool(info.is_named_tuple),
                PyBool(info.is_newtype),
                snapshot_optional_type(info.tuple_type),
                snapshot_optional_type(info.typeddict_type),
                PyList([i \in 1..Len(info.mro) |-> PyStr(infos[info.mro[i]].fullname)]),
                PyRef(info.type_vars),
                PyListOf([i \in 1..Len(info.bases) |-> snapshot_type(info.bases[i])]),
                snapshot_optional_type(info.promote)>>)

snapshot_definition(node, common) ==
    IF node.n \in {"OverloadedFuncDef", "FuncItem"}
    THEN PyTupleOf(<<PyStr(<<"Func">>), common, PyBool(node.is_property),
                     IF node.type # Absent
                     THEN snapshot_type(node.type)
                     ELSE snapshot_untyped_signature(node)>>)
    ELSE IF node.n = "Var"
    THEN PyTupleOf(<<PyStr(<<"Var">>), common, snapshot_optional_type(node.type)>>)
    ELSE IF node.n = "Decorator"
    THEN PyTupleOf(<<PyStr(<<"Decorator">>), PyBool(node.is_overload),
                     snapshot_optional_type(node.var.type),
                     snapshot_definition(node.func, common)>>)
    ELSE IF node.n = "TypeInfo"
    THEN PyTupleOf(<<PyStr(<<"TypeInfo">>), common,
                     snapshot_attrs(infos[node.id]),
                     snapshot_symbol_table(fullname(node), infos[node.id].names)>>)
    ELSE Raise("AssertionError")

\* The body of the loop of snapshot_symbol_table: the snapshot of one entry.
snapshot_entry(name_prefix, symbol) ==
    LET node == symbol.node
        full == IF node # NoNode THEN PyStr(fullname(node)) ELSE PyNone
        common == PyTuple(<<full, PyStr(<<symbol.kind>>), PyBool(symbol.module_public)>>)
    IN  IF symbol.kind = "MODULE_REF"
        THEN IF node.n # "MypyFile" THEN Raise("AssertionError")
             ELSE PyTuple(<<PyStr(<<"Moduleref">>), common>>)
        ELSE IF symbol.kind = "TVAR"
        THEN IF node.n # "TypeVarExpr" THEN Raise("AssertionError")
             ELSE PyTupleOf(<<PyStr(<<"TypeVar">>), PyInt(node.variance),
                              PyListOf([i \in 1..Len(node.values) |->
                                           snapshot_type(node.values[i])]),
                              snapshot_type(node.upper_bound)>>)
        ELSE IF symbol.kind = "TYPE_ALIAS"
        THEN PyTupleOf(<<PyStr(<<"TypeAlias">>), PyRef(symbol.alias_tvars),
                         snapshot_optional_type(symbol.type_override)>>)
        ELSE IF symbol.kind = "UNBOUND_IMPORTED" THEN Raise("AssertionError")
        ELSE IF node # NoNode /\ get_prefix(fullname(node)) # name_prefix
        THEN PyTuple(<<PyStr(<<"CrossRef">>), common, PyBool(symbol.normalized)>>)
        ELSE snapshot_definition(node, common)

snapshot_symbol_table(name_prefix, table) ==
    PyDictOf([name \in DOMAIN table |-> snapshot_entry(name_prefix, table[name])])

(***************************************************************************)
(* The comparator.  Python's == on snapshot values compares list objects   *)
(* by their contents at the time of the comparison.                        *)
(***************************************************************************)
RECURSIVE Deref(_)
Deref(v) ==
    IF v.py = "ref" THEN PyList(SeqOfStr(lists[v.id]))
    ELSE IF v.py \in {"tuple", "list"}
    THEN [v EXCEPT !.items = [i \in 1..Len(v.items) |-> Deref(v.items[i])]]
    ELSE IF v.py = "dict"
    THEN [v EXCEPT !.d = [name \in DOMAIN v.d |-> Deref(v.d[name])]]
    ELSE v

PyEq(a, b) == Deref(a) = Deref(b)

PySet(elems) == [py |-> "set", elems |-> elems]

RECURSIVE compare_symbol_table_snapshots(_, _, _)

\* compare_item with 'item1 != item2' for 'item1[:-1] != item2[:-1]': the
\* member mapping takes part in the comparison of the class itself.
compare_item_whole(item_name, item1, item2) ==
    LET kind1 == item1.items[1]
        kind2 == item2.items[1]
        last1 == item1.items[Len(item1.items)]
        last2 == item2.items[Len(item2.items)]
    IN  IF ~PyEq(kind1, kind2) THEN PySet({item_name})
        ELSE IF kind1 = PyStr(<<"TypeInfo">>)
        THEN IF last1.py # "dict" \/ last2.py # "dict" THEN Raise("AssertionError")
             ELSE LET major == IF ~PyEq(item1, item2) THEN {item_name} ELSE {}
                      nested == compare_symbol_table_snapshots(item_name, last1.d, last2.d)
                  IN  IF IsRaise(nested) THEN nested
                      ELSE PySet(major \cup nested.elems)
        ELSE IF ~PyEq(item1, item2) THEN PySet({item_name}) ELSE PySet({})

\* compare_item with 'item1[:2] != item2[:2]' for 'item1[:-1] != item2[:-1]':
\* the attrs tuple takes no part in the comparison.
compare_item_common(item_name, item1, item2) ==
    LET kind1 == item1.items[1]
        kind2 == item2.items[1]
        last1 == item1.items[Len(item1.items)]
        last2 == item2.items[Len(item2.items)]
    IN  IF ~PyEq(kind1, kind2) THEN PySet({item_name})
        ELSE IF kind1 = PyStr(<<"TypeInfo">>)
        THEN IF last1.py # "dict" \/ last2.py # "dict" THEN Raise("AssertionError")
             ELSE LET major == IF ~PyEq(PyTuple(SubSeq(item1.items, 1, 2)),
                                         PyTuple(SubSeq(item2.items, 1, 2)))
                               THEN {item_name} ELSE {}
                      nested == compare_symbol_table_snapshots(item_name, last1.d, last2.d)
                  IN  IF IsRaise(nested) THEN nested
                      ELSE PySet(major \cup nested.elems)
        ELSE IF ~PyEq(item1, item2) THEN PySet({item_name}) ELSE PySet({})

\* The body of the loop of compare_symbol_table_snapshots: the triggers of
\* one name defined in both versions.
compare_item(item_name, item1, item2) ==
    LET kind1 == item1.items[1]
        kind2 == item2.items[1]
        last1 == item1.items[Len(item1.items)]
        last2 == item2.items[Len(item2.items)]
    IN  IF ~PyEq(kind1, kind2) THEN PySet({item_name})
        ELSE IF kind1 = PyStr(<<"TypeInfo">>)
        THEN IF last1.py # "dict" \/ last2.py # "dict" THEN Raise("AssertionError")
             ELSE LET major == IF ~PyEq(PyTuple(SubSeq(item1.items, 1, Len(item1.items) - 1)),
                                         PyTuple(SubSeq(item2.items, 1, Len(item2.items) - 1)))
                               THEN {item_name} ELSE {}
                      nested == compare_symbol_table_snapshots(item_name, last1.d, last2.d)
                  IN  IF IsRaise(nested) THEN nested
                      ELSE PySet(major \cup nested.elems)
        ELSE IF ~PyEq(item1, item2) THEN PySet({item_name}) ELSE PySet({})

\* compare_symbol_table_snapshots with 'names1 | names2' for 'names1 ^ names2'.
compare_union(name_prefix, snapshot1, snapshot2) ==
    LET names1 == {Qualified(name_prefix, name) : name \in DOMAIN snapshot1}
        names2 == {Qualified(name_prefix, name) : name \in DOMAIN snapshot2}
        both == DOMAIN snapshot1 \cap DOMAIN snapshot2
        found == [name \in both |->
                     compare_item(Qualified(name_prefix, name),
                                  snapshot1[name], snapshot2[name])]
    IN  IF \E name \in both : IsRaise(found[name])
        THEN Raise("AssertionError")
        ELSE PySet((names1 \cup names2)
                   \cup UNION {found[name].elems : name \in both})

\* compare_symbol_table_snapshots with 'names1 - names2' for 'names1 ^ names2'.
compare_removed(name_prefix, snapshot1, snapshot2) ==
    LET names1 == {Qualified(name_prefix, name) : name \in DOMAIN snapshot1}
        names2 == {Qualified(name_prefix, name) : name \in DOMAIN snapshot2}
        both == DOMAIN snapshot1 \cap DOMAIN snapshot2
        found == [name \in both |->
                     compare_item(Qualified(name_prefix, name),
                                  snapshot1[name], snapshot2[name])]
    IN  IF \E name \in both : IsRaise(found[name])
        THEN Raise("AssertionError")
        ELSE PySet((names1 \ names2)
                   \cup UNION {found[name].elems : name \in both})

compare_symbol_table_snapshots(name_prefix, snapshot1, snapshot2) ==
    LET names1 == {Qualified(name_prefix, name) : name \in DOMAIN snapshot1}
        names2 == {Qualified(name_prefix, name) : name \in DOMAIN snapshot2}
        both == DOMAIN snapshot1 \cap DOMAIN snapshot2
        found == [name \in both |->
                     compare_item(Qualified(name_prefix, name),
                                  snapshot1[name], snapshot2[name])]
    IN  IF \E name \in both : IsRaise(found[name])
        THEN Raise("AssertionError")
        ELSE PySet(((names1 \ names2) \cup (names2 \ names1))
                   \cup UNION {found[name].elems : name \in both})

(***************************************************************************)
(* Spec: the driver of one comparison pass.  The module's symbol table is  *)
(* snapshotted, the module is analysed again (one edit of the live symbol  *)
(* table or of an object it refers to), the table is snapshotted again and *)
(* the two snapshots are compared.                                         *)
(***************************************************************************)
P == <<"m">>                          \* name_prefix: the module's id

ClassIds == {"C", "D", "E", "X", "O"}
ClassFullname ==
    [id \in ClassIds |->
        CASE id = "C" -> <<"m", "C">>
          [] id = "D" -> <<"m", "C", "D">>
          [] id = "E" -> <<"m", "E">>
          [] id = "X" -> <<"x", "X">>
          [] id = "O" -> <<"builtins", "object">>]
ListIds == {"l1", "l2", "l3"}

\* The symbol tables the model edits, with the names each may define.
Tables == {"module", "C", "D", "X"}
TableKeys(t) ==
    CASE t = "module" -> {"C", "y"}
      [] t = "C" -> {"D", "g"}
      [] t = "D" -> {"g"}
      [] t = "X" -> {"g"}
TablePrefix(t) == IF t = "module" THEN P ELSE ClassFullname[t]
TableKind(t) == IF t = "module" THEN "GDEF" ELSE "MDEF"
TableOf(t) == IF t = "module" THEN module_names ELSE infos[t].names

\* def (*, x: int) -> int
CallKw == CallableType(<<IntT>>, IntT, <<PyStr(<<"x">>)>>, <<3>>, FALSE, FALSE, <<>>)
\* Union[def (x: int) -> int, Callable[[int], int]]
UnionOfCallables == UnionType(<<CallNamed, CallAnon>>)

Definition(kind, node) == SymbolTableNode(kind, node, TRUE, FALSE, "l3", Absent)

\* Declarations of the name key in the table of prefix pre: definitions of
\* that table (full name pre.key), of other modules (x.key, z.key), module
\* references, type variables, type aliases, classes of the heap, and
\* entries that a finished symbol table must not hold.
Declarations(pre, key, kind) ==
    LET here == Qualified(pre, key)
        far == <<"x", key>>
        away == <<"z", key>>
    IN  {Definition(kind, Var(here, t)) : t \in {Absent, IntT, StrT}}
        \cup {Definition(kind, FuncItem(here, t, <<PyStr(<<"x">>)>>, <<0>>, FALSE)) :
                 t \in {Absent, CallNamed, CallKw}}
        \cup {Definition(kind, FuncItem(here, Absent, <<PyStr(<<"x">>)>>, <<3>>, FALSE)),
              Definition(kind, FuncItem(here, CallNamed, <<PyStr(<<"x">>)>>, <<0>>, TRUE)),
              Definition(kind, OverloadedFuncDef(here, Absent,
                  <<Decorator(TRUE, Var(here, CallNamed),
                              FuncItem(here, Absent, <<PyStr(<<"x">>)>>, <<0>>, FALSE)),
                    Decorator(TRUE, Var(here, Absent),
                              FuncItem(here, Absent, <<PyStr(<<"x">>)>>, <<0>>, FALSE)),
                    FuncItem(here, Absent, <<PyStr(<<"x">>)>>, <<0>>, FALSE)>>, FALSE)),
              Definition(kind, OverloadedFuncDef(here, Overloaded(<<CallNamed, CallKw>>),
                  <<>>, FALSE)),
              Definition(kind, Decorator(FALSE, Var(here, CallNamed),
                  FuncItem(here, CallNamed, <<PyStr(<<"x">>)>>, <<0>>, FALSE))),
              Definition(kind, Decorator(FALSE, Var(here, Absent),
                  FuncItem(here, Absent, <<PyStr(<<"x">>)>>, <<3>>, FALSE)))}
        \cup {Definition(kind, Var(far, t)) : t \in {IntT, StrT}}
        \cup {Definition(kind, Var(away, IntT)),
              Definition(kind, FuncItem(far, CallNamed, <<PyStr(<<"x">>)>>, <<0>>, FALSE)),
              SymbolTableNode(kind, Var(far, IntT), FALSE, FALSE, "l3", Absent),
              SymbolTableNode(kind, Var(far, IntT), TRUE, TRUE, "l3", Absent)}
        \cup {Definition("MODULE_REF", MypyFile(<<mod>>)) : mod \in {"x", "z"}}
        \cup {Definition("TVAR", TypeVarExpr(name, 0, <<>>, bound)) :
                 name \in {here, far, away}, bound \in {ObjT, IntT}}
        \cup {Definition("TVAR", TypeVarExpr(far, 1, <<IntT, StrT>>, ObjT))}
        \cup {SymbolTableNode("TYPE_ALIAS", Var(name, Absent), TRUE, FALSE, l, t) :
                 name \in {far, away}, l \in {"l1", "l2"}, t \in {IntT, StrT}}
        \cup {Definition(kind, TypeInfo(id)) : id \in ClassIds \ {"O"}}
        \cup {Definition("UNBOUND_IMPORTED", NoNode),
              Definition(kind, NoNode),
              Definition(kind, MypyFile(here)),
              Definition("MODULE_REF", Var(far, IntT)),
              Definition("TVAR", Var(far, IntT)),
              Definition(kind, Var(here, PartialType)),
              Definition(kind, Var(here, UnionOfCallables))}

NewTypeInfo(id, mro, type_vars, table) ==
    [fullname |-> ClassFullname[id], is_abstract |-> FALSE, is_enum |-> FALSE,
     fallback_to_any |-> FALSE, is_named_tuple |-> FALSE, is_newtype |-> FALSE,
     tuple_type |-> Absent, typeddict_type |-> Absent, mro |-> mro,
     type_vars |-> type_vars, bases |-> <<ObjT>>, promote |-> Absent, names |-> table]

\* A symbol table: the names of keys that options defines (Missing: not defined).
Missing == [kind |-> "missing"]
Table(options) ==
    [name \in {k \in DOMAIN options : options[k] # Missing} |-> options[name]]

Method(pre, key) ==
    Definition("MDEF", FuncItem(Qualified(pre, key), Absent, <<PyStr(<<"x">>)>>, <<0>>, FALSE))

\* The module's symbol table and the objects it refers to, as the semantic
\* analyzer leaves them: class C of the module refers to itself, class D
\* nested in C refers to the enclosing class C.
InitHeap ==
    /\ \E c \in {Missing, Definition("GDEF", TypeInfo("C"))},
          y \in {Missing,
                 Definition("GDEF", Var(<<"x", "y">>, IntT)),
                 Definition("TVAR", TypeVarExpr(<<"x", "y">>, 0, <<>>, ObjT)),
                 SymbolTableNode("TYPE_ALIAS", Var(<<"x", "y">>, Absent), TRUE, FALSE,
                                 "l2", IntT),
                 Definition("MODULE_REF", MypyFile(<<"x">>))} :
          module_names = Table([k \in {"C", "y"} |-> IF k = "C" THEN c ELSE y])
    /\ \E d \in {Missing, Definition("MDEF", TypeInfo("D"))},
          g \in {Method(<<"m", "C">>, "g"),
                 Definition("MDEF", Decorator(FALSE, Var(<<"m", "C", "g">>, CallNamed),
                     FuncItem(<<"m", "C", "g">>, CallNamed, <<PyStr(<<"x">>)>>, <<0>>, FALSE)))},
          self \in {Definition("MDEF", TypeInfo("C"))},
          outer \in {Definition("MDEF", TypeInfo("C"))} :
          infos = [id \in ClassIds |->
              CASE id = "C" -> NewTypeInfo("C", <<"C", "X", "E", "O">>, "l1",
                                   Table([k \in {"D", "g", "y"} |->
                                       IF k = "D" THEN d ELSE IF k = "g" THEN g ELSE self]))
                [] id = "D" -> NewTypeInfo("D", <<"D", "O">>, "l2",
                                   Table([k \in {"g", "y"} |->
                                       IF k = "g" THEN Definition("MDEF",
                                                           Var(<<"m", "C", "D", "g">>, IntT))
                                       ELSE outer]))
                [] id = "E" -> NewTypeInfo("E", <<"E", "O">>, "l3",
                                   Table([k \in {"g"} |-> Method(<<"m", "E">>, "g")]))
                [] id = "X" -> NewTypeInfo("X", <<"X", "O">>, "l3",
                                   Table([k \in {"g"} |->
                                       Definition("MDEF", Var(<<"x", "X", "g">>, IntT))]))
                [] id = "O" -> NewTypeInfo("O", <<"O">>, "l3", <<>>)]
    /\ lists = [l \in ListIds |-> IF l = "l2" THEN <<"T">> ELSE <<>>]

Init ==
    /\ InitHeap
    /\ module_names0 = <<>> /\ infos0 = <<>> /\ lists0 = <<>>
    /\ snap = NotRun
    /\ snapAtReturn = NotRun
    /\ snap2 = NotRun
    /\ triggers = NotRun
    /\ pc = "live"
    /\ typA = Absent /\ typB = Absent /\ outA = NotRun /\ outB = NotRun /\ tpc = "idle"
    /\ stack = <<>> /\ walked = NotRun /\ wpc = "idle"

\* old = snapshot_symbol_table(name_prefix, table), by the driver.
Snapshot ==
    /\ pc = "live"
    /\ snap' = snapshot_symbol_table(P, module_names)
    /\ snapAtReturn' = Deref(snap')
    /\ pc' = IF IsRaise(snap') THEN "failed" ELSE "snapped"
    /\ module_names0' = module_names /\ infos0' = infos /\ lists0' = lists
    /\ UNCHANGED <<tableVars, snap2, triggers, typeVars, walkVars>>

\* The table t with name key bound to symbol (a new entry or another one).
WithEntry(t, table) ==
    /\ IF t = "module"
       THEN module_names' = table /\ UNCHANGED infos
       ELSE infos' = [infos EXCEPT ![t].names = table] /\ UNCHANGED module_names
    /\ pc' = "edited"
    /\ UNCHANGED <<lists, module_names0, infos0, lists0, snap, snapAtReturn, snap2, triggers,
                   typeVars, walkVars>>

SetEntry ==
    /\ pc = "snapped"
    /\ \E t \in Tables : \E key \in TableKeys(t) :
          \E symbol \in Declarations(TablePrefix(t), key, TableKind(t)) :
              /\ key \in DOMAIN TableOf(t) => TableOf(t)[key] # symbol
              /\ WithEntry(t, [name \in DOMAIN TableOf(t) \cup {key} |->
                                  IF name = key THEN symbol ELSE TableOf(t)[name]])

DelEntry ==
    /\ pc = "snapped"
    /\ \E t \in Tables : \E key \in DOMAIN TableOf(t) :
          WithEntry(t, [name \in DOMAIN TableOf(t) \ {key} |-> TableOf(t)[name]])

WithInfo(id, info) ==
    /\ infos' = [infos EXCEPT ![id] = info]
    /\ pc' = "edited"
    /\ UNCHANGED <<module_names, lists, module_names0, infos0, lists0, snap, snapAtReturn,
                   snap2, triggers, typeVars, walkVars>>

SetFlag ==
    /\ pc = "snapped"
    /\ \E id \in {"C", "D", "X"} :
          \/ WithInfo(id, [infos[id] EXCEPT !.is_abstract = ~@])
          \/ WithInfo(id, [infos[id] EXCEPT !.is_enum = ~@])
          \/ WithInfo(id, [infos[id] EXCEPT !.fallback_to_any = ~@])
          \/ WithInfo(id, [infos[id] EXCEPT !.is_named_tuple = ~@])
          \/ WithInfo(id, [infos[id] EXCEPT !.is_newtype = ~@])

SetMro ==
    /\ pc = "snapped"
    /\ \E id \in {"C", "D", "X"} :
          \E mro \in {<<id, "X", "E", "O">>, <<id, "E", "X", "O">>, <<id, "O">>} :
              /\ mro # infos[id].mro
              /\ WithInfo(id, [infos[id] EXCEPT !.mro = mro])

\* info.type_vars = another list object
SetTypeVars ==
    /\ pc = "snapped"
    /\ \E id \in {"C", "D", "X"} : \E l \in ListIds \ {infos[id].type_vars} :
          WithInfo(id, [infos[id] EXCEPT !.type_vars = l])

SetTypeAttr ==
    /\ pc = "snapped"
    /\ \E id \in {"C", "D", "X"} :
          \/ WithInfo(id, [infos[id] EXCEPT !.tuple_type =
                               IF @ = Absent THEN TupleType(<<IntT, StrT>>) ELSE Absent])
          \/ WithInfo(id, [infos[id] EXCEPT !.typeddict_type =
                               IF @ = Absent
                               THEN TypedDictType(<< <<(<<"k">>), IntT>> >>, {<<"k">>})
                               ELSE Absent])
          \/ WithInfo(id, [infos[id] EXCEPT !.promote =
                               IF @ = Absent THEN IntT ELSE Absent])
          \/ \E bases \in {<<ObjT>>, <<Instance(<<"x", "X">>, <<>>)>>,
                           <<Instance(<<"x", "X">>, <<>>), ObjT>>} :
                /\ bases # infos[id].bases
                /\ WithInfo(id, [infos[id] EXCEPT !.bases = bases])

\* some_list.append('T'), on a list object in place
ListAppend ==
    /\ pc = "snapped"
    /\ \E l \in ListIds :
          /\ Len(lists[l]) < MaxListLen
          /\ lists' = [lists EXCEPT ![l] = Append(@, "T")]
    /\ pc' = "edited"
    /\ UNCHANGED <<module_names, infos, module_names0, infos0, lists0, snap, snapAtReturn,
                   snap2, triggers, typeVars, walkVars>>

\* new = snapshot_symbol_table(name_prefix, table);
\* triggers = compare_symbol_table_snapshots(name_prefix, old, new)
Compare ==
    /\ pc \in {"snapped", "edited"}
    /\ snap2' = snapshot_symbol_table(P, module_names)
    /\ IF IsRaise(snap2')
       THEN pc' = "failed" /\ UNCHANGED triggers
       ELSE /\ triggers' = compare_symbol_table_snapshots(P, snap.d, snap2'.d)
            /\ pc' = "compared"
    /\ UNCHANGED <<tableVars, module_names0, infos0, lists0, snap, snapAtReturn,
                   typeVars, walkVars>>

Next ==
    \/ Snapshot
    \/ SetEntry
    \/ DelEntry
    \/ SetFlag
    \/ SetMro
    \/ SetTypeVars
    \/ SetTypeAttr
    \/ ListAppend
    \/ Compare

Spec == Init /\ [][Next]_vars

(***************************************************************************)
(* Properties of a comparison pass.                                        *)
(***************************************************************************)
\* The two versions have the same heap: only the module's table may differ.
SameHeap == infos = infos0 /\ lists = lists0

\* The two snapshots as the comparator reads them.
OldSnap == Deref(snap).d
NewSnap == Deref(snap2).d

IsClassSnap(item) == item.py = "tuple" /\ item.items[1] = PyStr(<<"TypeInfo">>)

\* name is prefix followed by at least one more component.
Below(prefix, name) ==
    Len(name) > Len(prefix) /\ SubSeq(name, 1, Len(prefix)) = prefix

\* C1 (reflexivity): when the table and everything it refers to are the same
\* in both versions and snapshot_symbol_table accepts it, the comparison of
\* its two snapshots is the empty set, also for classes nested in classes.
Reflexivity ==
    (pc = "compared" /\ module_names = module_names0 /\ SameHeap)
        => triggers = PySet({})

ReflexivityWitness ==
    /\ pc = "compared" /\ module_names = module_names0 /\ SameHeap
    /\ "C" \in DOMAIN module_names /\ "D" \in DOMAIN infos["C"].names
    /\ IsClassSnap(snap.d["C"])
    /\ IsClassSnap(snap.d["C"].items[4].d["D"])
    /\ DOMAIN snap.d["C"].items[4].d["D"].items[4].d # {}
    /\ triggers = PySet({})

\* The new table is the old one plus the entry x / minus the entry x.
Added(x) ==
    /\ x \notin DOMAIN module_names0
    /\ DOMAIN module_names = DOMAIN module_names0 \cup {x}
    /\ \A k \in DOMAIN module_names0 : module_names[k] = module_names0[k]
Removed(x) ==
    /\ x \notin DOMAIN module_names
    /\ DOMAIN module_names0 = DOMAIN module_names \cup {x}
    /\ \A k \in DOMAIN module_names : module_names[k] = module_names0[k]

\* C2 (addition and removal): when the new table is the old one plus one
\* entry x, or the old one minus one entry x, every other entry and the
\* heap unchanged, the comparison is exactly {p.x}, whatever x declares;
\* the members of a class x are not in the result.
AdditionRemoval ==
    (pc = "compared" /\ SameHeap)
        => \A x \in DOMAIN module_names \cup DOMAIN module_names0 :
               (Added(x) \/ Removed(x)) => triggers = PySet({Qualified(P, x)})

AdditionRemovalWitness ==
    /\ pc = "compared" /\ SameHeap
    /\ Added("C")
    /\ IsClassSnap(snap2.d["C"])
    /\ DOMAIN snap2.d["C"].items[4].d # {}
    /\ triggers = PySet({<<"m", "C">>})

\* The snapshots old and new differ only in the snapshot of member m of class
\* c: the other entries of the module, the common fields and the attrs of c
\* and the other members of c are equal.
OnlyMemberDiffers(old, new, c, m) ==
    /\ DOMAIN old = DOMAIN new
    /\ c \in DOMAIN old
    /\ \A k \in DOMAIN old \ {c} : old[k] = new[k]
    /\ IsClassSnap(old[c]) /\ IsClassSnap(new[c])
    /\ old[c].items[2] = new[c].items[2]
    /\ old[c].items[3] = new[c].items[3]
    /\ DOMAIN old[c].items[4].d = DOMAIN new[c].items[4].d
    /\ m \in DOMAIN old[c].items[4].d
    /\ old[c].items[4].d[m] # new[c].items[4].d[m]
    /\ \A k \in DOMAIN old[c].items[4].d \ {m} :
           old[c].items[4].d[k] = new[c].items[4].d[k]

\* The snapshots item1 and item2 of a member are of a class, and differ only
\* inside the member mapping of the class.
OnlyNestedMembersDiffer(item1, item2) ==
    /\ IsClassSnap(item1) /\ IsClassSnap(item2)
    /\ item1.items[2] = item2.items[2]
    /\ item1.items[3] = item2.items[3]

MemberNames == {"D", "g", "y"}       \* the names that the tables of classes define

\* C3 as stated: when the versions differ only in the snapshot of one member
\* m of class c, the comparison contains p.c.m and does not contain p.c.
MemberIsolationAsStated ==
    pc = "compared"
        => LET old == OldSnap
               new == NewSnap
           IN  \A c \in DOMAIN old : \A m \in MemberNames :
                   OnlyMemberDiffers(old, new, c, m)
                       => /\ Qualified(Qualified(P, c), m) \in triggers.elems
                          /\ Qualified(P, c) \notin triggers.elems

\* C3 (member-vs-class isolation), amended: when the versions differ only in
\* the snapshot of one member m of class c, the comparison does not contain
\* p.c, is not empty and holds only p.c.m and names below it; it contains
\* p.c.m unless m is a class in both versions whose snapshots differ only
\* inside its own member mapping.
MemberIsolation ==
    pc = "compared"
        => LET old == OldSnap
               new == NewSnap
           IN  \A c \in DOMAIN old : \A m \in MemberNames :
                   OnlyMemberDiffers(old, new, c, m)
                       => /\ Qualified(P, c) \notin triggers.elems
                          /\ triggers.elems # {}
                          /\ \A name \in triggers.elems :
                                 \/ name = Qualified(Qualified(P, c), m)
                                 \/ Below(Qualified(Qualified(P, c), m), name)
                          /\ Qualified(Qualified(P, c), m) \in triggers.elems
                                 <=> ~OnlyNestedMembersDiffer(old[c].items[4].d[m],
                                                              new[c].items[4].d[m])

\* A method of class C that takes x by position takes it by keyword only.
MemberIsolationWitness ==
    /\ pc = "compared"
    /\ "C" \in DOMAIN OldSnap
    /\ OnlyMemberDiffers(OldSnap, NewSnap, "C", "g")
    /\ infos0["C"].names["g"].node.n = "FuncItem"
    /\ infos0["C"].names["g"].node.arg_kinds = <<0>>
    /\ infos["C"].names["g"] =
           [infos0["C"].names["g"] EXCEPT !.node.arg_kinds = <<3>>]
    /\ triggers = PySet({<<"m", "C", "g">>})

\* The versions differ only in the MRO of class c.
OnlyMroDiffers(c) ==
    /\ module_names = module_names0
    /\ lists = lists0
    /\ infos[c].mro # infos0[c].mro
    /\ infos = [infos0 EXCEPT ![c].mro = infos[c].mro]

\* The names of the module that define class c.
ClassNames(c) ==
    {k \in DOMAIN module_names : IsClassSnap(snap2.d[k]) /\ module_names[k].node = TypeInfo(c)}

\* C4 (MRO sensitivity): when the versions differ only in the sequence of
\* ancestor names of the MRO of a class of the module, the comparison is
\* exactly the name of the class; no member of the class is in it.
MroSensitivity ==
    pc = "compared"
        => \A c \in ClassIds :
               (OnlyMroDiffers(c) /\ ClassNames(c) # {})
                   => triggers = PySet({Qualified(P, k) : k \in ClassNames(c)})

MroSensitivityWitness ==
    /\ pc = "compared"
    /\ OnlyMroDiffers("C")
    /\ ClassNames("C") = {"C"}
    /\ infos0["C"].mro = <<"C", "X", "E", "O">>
    /\ infos["C"].mro = <<"C", "E", "X", "O">>
    /\ DOMAIN infos["C"].names # {}
    /\ triggers = PySet({<<"m", "C">>})

\* The target of symbol is defined in another module.
CrossModule(symbol) ==
    symbol.node # NoNode /\ get_prefix(fullname(symbol.node)) # P

\* C5 (cross-module shallowness): for an entry y of the module whose target
\* is defined in another module in both versions, with the same full name,
\* reference kind, module-public flag and normalization marker (and the same
\* fields of the entry itself), p.y is not in the comparison, whatever
\* changed inside the target.
CrossModuleShallowness ==
    pc = "compared"
        => \A y \in DOMAIN module_names0 \cap DOMAIN module_names :
               (/\ CrossModule(module_names0[y]) /\ CrossModule(module_names[y])
                /\ fullname(module_names0[y].node) = fullname(module_names[y].node)
                /\ [module_names[y] EXCEPT !.node = module_names0[y].node] = module_names0[y])
                   => Qualified(P, y) \notin triggers.elems

\* C6 (import retargeting): for an entry y of the module whose target is
\* defined in another module in both versions, under full names that differ,
\* p.y is in the comparison, whatever the reference kind of the entry.
ImportRetargeting ==
    pc = "compared"
        => \A y \in DOMAIN module_names0 \cap DOMAIN module_names :
               (/\ CrossModule(module_names0[y]) /\ CrossModule(module_names[y])
                /\ fullname(module_names0[y].node) # fullname(module_names[y].node))
                   => Qualified(P, y) \in triggers.elems

\* C9 (no alias into the live table): once snapshot_symbol_table has returned
\* a snapshot, the snapshot keeps the value it had on return whatever is done
\* to the table and the objects it refers to, and the comparison with a later
\* snapshot of another value is not empty.
SnapshotOwnsItsValue ==
    /\ pc \in {"snapped", "edited", "compared"} => Deref(snap) = snapAtReturn
    /\ (pc = "compared" /\ Deref(snap2) # snapAtReturn) => triggers.elems # {}

(***************************************************************************)
(* SpecWalk: one call of snapshot_symbol_table(P, module_names), step by   *)
(* step.  stack holds the active calls of snapshot_symbol_table, outermost *)
(* first: the prefix and the table of the call, the names of the table the *)
(* loop has yet to visit, the result dict so far and, for the call made by *)
(* snapshot_definition for a class, the name of the class in the caller's  *)
(* table and the common and attrs values computed before the call.  The    *)
(* loop visits the names of a table in some order.                         *)
(***************************************************************************)
MaxDepth == 4                         \* the calls the model lets be active at once

Frame(name_prefix, table, name, common, attrs) ==
    [name_prefix |-> name_prefix, table |-> table, todo |-> DOMAIN TableOf(table),
     result |-> <<>>, name |-> name, common |-> common, attrs |-> attrs]

\* The common tuple of an entry (line 136).
common_of(symbol) ==
    PyTuple(<<IF symbol.node # NoNode THEN PyStr(fullname(symbol.node)) ELSE PyNone,
              PyStr(<<symbol.kind>>), PyBool(symbol.module_public)>>)

\* snapshot_symbol_table with prefix name_prefix ignores the test of line 154
\* and takes every class for a class defined under name_prefix.
enters_any_class(name_prefix, symbol) ==
    /\ symbol.kind \notin {"MODULE_REF", "TVAR", "TYPE_ALIAS", "UNBOUND_IMPORTED"}
    /\ symbol.node.n = "TypeInfo"

\* The loop body reaches the recursive call of line 201 for symbol: the entry
\* is a real definition, its target is not defined elsewhere than under
\* name_prefix, and the target is a class.
enters_class(name_prefix, symbol) ==
    /\ symbol.kind \notin {"MODULE_REF", "TVAR", "TYPE_ALIAS", "UNBOUND_IMPORTED"}
    /\ ~(symbol.node # NoNode /\ get_prefix(fullname(symbol.node)) # name_prefix)
    /\ symbol.node.n = "TypeInfo"

Top == stack[Len(stack)]
SetTop(frame) == [stack EXCEPT ![Len(stack)] = frame]

\* Entries the walk is tried on: references to the classes of the heap from
\* any table, a variable, and a variable of a partial type.
WalkDeclarations(pre, key, kind) ==
    {Definition(kind, TypeInfo(id)) : id \in ClassIds \ {"O"}}
    \cup {Definition(kind, Var(Qualified(pre, key), IntT)),
          Definition(kind, Var(Qualified(pre, key), PartialType))}

WalkInit ==
    /\ InitHeap
    /\ DOMAIN module_names \subseteq {"C"}
    /\ module_names0 = <<>> /\ infos0 = <<>> /\ lists0 = <<>>
    /\ snap = NotRun /\ snapAtReturn = NotRun /\ snap2 = NotRun /\ triggers = NotRun
    /\ pc = "idle"
    /\ typA = Absent /\ typB = Absent /\ outA = NotRun /\ outB = NotRun /\ tpc = "idle"
    /\ stack = <<>> /\ walked = NotRun /\ wpc = "setup"

\* The analyzer binds one more name before the snapshot is taken.
Arrange ==
    /\ wpc = "setup"
    /\ \E t \in Tables : \E key \in TableKeys(t) :
          \E symbol \in WalkDeclarations(TablePrefix(t), key, TableKind(t)) :
              LET table == [name \in DOMAIN TableOf(t) \cup {key} |->
                               IF name = key THEN symbol ELSE TableOf(t)[name]]
              IN  IF t = "module"
                  THEN module_names' = table /\ UNCHANGED infos
                  ELSE infos' = [infos EXCEPT ![t].names = table] /\ UNCHANGED module_names
    /\ wpc' = "ready"
    /\ UNCHANGED <<lists, stack, walked, driverVars, typeVars>>

\* The driver calls snapshot_symbol_table(P, module_names).
Call ==
    /\ wpc \in {"setup", "ready"}
    /\ stack' = <<Frame(P, "module", "", PyNone, PyNone)>>
    /\ wpc' = "walking"
    /\ UNCHANGED <<walked, tableVars, driverVars, typeVars>>

\* One turn of the loop for an entry that is not a class to recurse into.
VisitEntry ==
    /\ wpc = "walking"
    /\ \E name \in Top.todo :
          /\ ~enters_class(Top.name_prefix, TableOf(Top.table)[name])
          /\ ~IsRaise(snapshot_entry(Top.name_prefix, TableOf(Top.table)[name]))
          /\ stack' = SetTop([Top EXCEPT
                 !.todo = @ \ {name},
                 !.result = [k \in DOMAIN @ \cup {name} |->
                                IF k = name
                                THEN snapshot_entry(Top.name_prefix, TableOf(Top.table)[name])
                                ELSE @[k]]])
    /\ UNCHANGED <<walked, wpc, tableVars, driverVars, typeVars>>

\* One turn of the loop in which an assertion fails or snapshot_type raises:
\* the exception leaves every active call.
RaiseEntry ==
    /\ wpc = "walking"
    /\ \E name \in Top.todo :
          /\ ~enters_class(Top.name_prefix, TableOf(Top.table)[name])
          /\ IsRaise(snapshot_entry(Top.name_prefix, TableOf(Top.table)[name]))
          /\ walked' = snapshot_entry(Top.name_prefix, TableOf(Top.table)[name])
    /\ stack' = <<>>
    /\ wpc' = "failed"
    /\ UNCHANGED <<tableVars, driverVars, typeVars>>

\* One turn of the loop for a class defined under the prefix of the call:
\* snapshot_definition computes attrs and calls snapshot_symbol_table on the
\* member table of the class, with the full name of the class as the prefix.
EnterClass ==
    /\ wpc = "walking"
    /\ Len(stack) < MaxDepth
    /\ \E name \in Top.todo :
          LET symbol == TableOf(Top.table)[name]
          IN  /\ enters_class(Top.name_prefix, symbol)
              /\ IF IsRaise(snapshot_attrs(infos[symbol.node.id]))
                 THEN /\ walked' = snapshot_attrs(infos[symbol.node.id])
                      /\ stack' = <<>>
                      /\ wpc' = "failed"
                 ELSE /\ stack' = Append(stack,
                             Frame(fullname(symbol.node), symbol.node.id, name,
                                   common_of(symbol), snapshot_attrs(infos[symbol.node.id])))
                      /\ UNCHANGED <<walked, wpc>>
    /\ UNCHANGED <<tableVars, driverVars, typeVars>>

\* The loop of a call for a class is over: the call returns its result to
\* snapshot_definition, which returns the snapshot of the class to the loop
\* of the caller.
ReturnClass ==
    /\ wpc = "walking"
    /\ Len(stack) > 1
    /\ Top.todo = {}
    /\ LET caller == stack[Len(stack) - 1]
           item == PyTuple(<<PyStr(<<"TypeInfo">>), Top.common, Top.attrs,
                             PyDict(Top.result)>>)
       IN  stack' = [SubSeq(stack, 1, Len(stack) - 1) EXCEPT ![Len(stack) - 1] =
                        [caller EXCEPT
                            !.todo = @ \ {Top.name},
                            !.result = [k \in DOMAIN @ \cup {Top.name} |->
                                           IF k = Top.name THEN item ELSE @[k]]]]
    /\ UNCHANGED <<walked, wpc, tableVars, driverVars, typeVars>>

\* The loop of the outermost call is over: the call returns to the driver.
ReturnModule ==
    /\ wpc = "walking"
    /\ Len(stack) = 1
    /\ Top.todo = {}
    /\ walked' = PyDict(Top.result)
    /\ stack' = <<>>
    /\ wpc' = "done"
    /\ UNCHANGED <<tableVars, driverVars, typeVars>>

WalkNext ==
    \/ Arrange
    \/ Call
    \/ VisitEntry
    \/ RaiseEntry
    \/ EnterClass
    \/ ReturnClass
    \/ ReturnModule

\* The interpreter runs the call to its end: a step that can be taken is taken.
SpecWalk == WalkInit /\ [][WalkNext]_vars /\ WF_vars(WalkNext)

(***************************************************************************)
(* Properties of a call of snapshot_symbol_table.                          *)
(***************************************************************************)
\* The depth at which classes of the module are nested: the most components
\* that the full name of a class has after the module's id.
NestingDepth ==
    CHOOSE n \in 0..MaxDepth :
        /\ \A c \in ClassIds : Below(P, ClassFullname[c]) => Len(ClassFullname[c]) - Len(P) <= n
        /\ \E c \in ClassIds : Below(P, ClassFullname[c]) /\ Len(ClassFullname[c]) - Len(P) = n

\* The active calls are at most one more than the nesting depth; each call
\* but the outermost has a prefix one component longer than its caller's and
\* below it; no table is in two active calls; and what the call returns or
\* raises is what snapshot_symbol_table is defined to return or raise.
WalkBounded ==
    /\ Len(stack) <= NestingDepth + 1
    /\ \A i \in 2..Len(stack) :
           get_prefix(stack[i].name_prefix) = stack[i - 1].name_prefix
    /\ \A i, j \in 1..Len(stack) : i < j => stack[i].table # stack[j].table
    /\ wpc = "done" => walked = snapshot_symbol_table(P, module_names)
    /\ wpc = "failed" => IsRaise(snapshot_symbol_table(P, module_names))

\* C10 (termination): a call of snapshot_symbol_table ends, by returning or by
\* raising, and until then its recursion is no deeper than classes are
\* nested: a table is entered only under the prefix of its class's full name,
\* so a table with an entry for its own class or for an enclosing class is
\* not entered again while it is being walked.
WalkTerminates ==
    []WalkBounded /\ <>(wpc \in {"done", "failed"})

\* The call has returned for a module whose class C holds an entry for C
\* itself and a nested class D that holds an entry for the enclosing C:
\* both entries are cross references, and D's table was entered.
WalkTerminatesWitness ==
    /\ wpc = "done"
    /\ "C" \in DOMAIN module_names /\ module_names["C"].node = TypeInfo("C")
    /\ "D" \in DOMAIN infos["C"].names /\ infos["C"].names["D"].node = TypeInfo("D")
    /\ infos["C"].names["y"].node = TypeInfo("C")
    /\ infos["D"].names["y"].node = TypeInfo("C")
    /\ IsClassSnap(walked.d["C"])
    /\ walked.d["C"].items[4].d["y"].items[1] = PyStr(<<"CrossRef">>)
    /\ IsClassSnap(walked.d["C"].items[4].d["D"])
    /\ walked.d["C"].items[4].d["D"].items[4].d["y"].items[1] = PyStr(<<"CrossRef">>)

(***************************************************************************)
(* SpecType: type objects as the type system builds them, and their        *)
(* snapshots.                                                              *)
(***************************************************************************)
LeafTypes ==
    {AnyType, NoneTyp, UninhabitedType, ErasedType, DeletedType, PartialType,
     IntT, UnboundX, TVarT, CallNamed, CallAnon}
CoreTypes == {NoneTyp, PartialType, IntT, CallNamed, CallAnon}
Partners == {IntT, CallAnon, CallGeneric}

\* The types one construction step makes of u.
Wrappers(u) ==
    {TupleType(<<u, IntT>>), TypeType(u), Instance(<<"builtins", "list">>, <<u>>),
     UnboundType(<<"y">>, TRUE, FALSE, <<u>>),
     TypeVarType(<<"U">>, <<"m", "U">>, 2, 0, <<u>>, ObjT, 1),
     CallableType(<<StrT>>, u, <<PyNone>>, <<0>>, FALSE, FALSE, <<>>),
     TypedDictType(<< <<(<<"k">>), u>>, <<(<<"a">>), IntT>> >>, {<<"k">>, <<"a">>}),
     UnionType(<<u, StrT>>), UnionType(<<StrT, u>>)}
    \cup (IF u.t = "CallableType" THEN {Overloaded(<<u, CallAnon>>)} ELSE {})

\* Types other than t that are built differently and have t's snapshot.
SameSnapshotVariants(t) ==
    {u \in {CallNamed, CallGeneric} \cup
           (IF t.t = "UnionType"
            THEN {UnionType([i \in 1..Len(t.items) |-> t.items[Len(t.items) + 1 - i]])}
            ELSE {}) :
        u # t /\ snapshot_type(u) = snapshot_type(t)}

TypeInit ==
    /\ typA \in LeafTypes
    /\ typB = typA
    /\ outA = NotRun
    /\ outB = NotRun
    /\ tpc = "leaf"
    /\ module_names = <<>> /\ infos = <<>> /\ lists = <<>>
    /\ module_names0 = <<>> /\ infos0 = <<>> /\ lists0 = <<>>
    /\ snap = NotRun /\ snapAtReturn = NotRun /\ snap2 = NotRun /\ triggers = NotRun
    /\ pc = "idle"
    /\ stack = <<>> /\ walked = NotRun /\ wpc = "idle"

Wrap ==
    /\ tpc = "leaf"
    /\ typA \in CoreTypes
    /\ typA' \in Wrappers(typA)
    /\ typB' = typA'
    /\ tpc' = "wrapped"
    /\ UNCHANGED <<outA, outB, tableVars, driverVars, walkVars>>

MakeUnion ==
    /\ tpc \in {"leaf", "wrapped"}
    /\ typA' = UnionType(<<typA>>)
    /\ typB' = typA'
    /\ tpc' = "union"
    /\ UNCHANGED <<outA, outB, tableVars, driverVars, walkVars>>

Extend ==
    /\ tpc = "union"
    /\ Len(typA.items) < MaxUnionLen
    /\ \E p \in Partners : typA' = UnionType(Append(typA.items, p))
    /\ typB' = typA'
    /\ UNCHANGED <<outA, outB, tpc, tableVars, driverVars, walkVars>>

\* A second union with the same members: two members exchanged.
Reorder ==
    /\ tpc \in {"wrapped", "union"}
    /\ typB.t = "UnionType"
    /\ \E i, j \in 1..Len(typB.items) :
          /\ i < j
          /\ typB' = UnionType([typB.items EXCEPT ![i] = typB.items[j],
                                                   ![j] = typB.items[i]])
    /\ tpc' = "vary"
    /\ UNCHANGED <<typA, outA, outB, tableVars, driverVars, walkVars>>

\* A second union with the same members: one member listed once more.
Repeat ==
    /\ tpc \in {"wrapped", "union"}
    /\ typB.t = "UnionType"
    /\ \E i \in 1..Len(typB.items) : typB' = UnionType(Append(typB.items, typB.items[i]))
    /\ tpc' = "vary"
    /\ UNCHANGED <<typA, outA, outB, tableVars, driverVars, walkVars>>

\* A second union whose member is another type object of the same snapshot.
Substitute ==
    /\ tpc \in {"wrapped", "union"}
    /\ typB.t = "UnionType"
    /\ \E i \in 1..Len(typB.items) :
          \E u \in SameSnapshotVariants(typB.items[i]) :
              typB' = UnionType([typB.items EXCEPT ![i] = u])
    /\ tpc' = "vary"
    /\ UNCHANGED <<typA, outA, outB, tableVars, driverVars, walkVars>>

SnapshotTypes ==
    /\ tpc \in {"leaf", "wrapped", "union", "vary"}
    /\ outA' = snapshot_type(typA)
    /\ outB' = snapshot_type(typB)
    /\ tpc' = "done"
    /\ UNCHANGED <<typA, typB, tableVars, driverVars, walkVars>>

TypeNext ==
    Wrap \/ MakeUnion \/ Extend \/ Reorder \/ Repeat \/ Substitute \/ SnapshotTypes

SpecType == TypeInit /\ [][TypeNext]_vars

(***************************************************************************)
(* Properties of type snapshots.                                           *)
(***************************************************************************)
\* The types a type is built from, one level down.
Components(typ) ==
    CASE typ.t \in {"UnboundType", "Instance"} -> {typ.args[i] : i \in DOMAIN typ.args}
      [] typ.t = "TypeVarType" ->
             {typ.values[i] : i \in DOMAIN typ.values} \cup {typ.upper_bound}
      [] typ.t = "CallableType" ->
             {typ.arg_types[i] : i \in DOMAIN typ.arg_types} \cup {typ.ret_type}
      [] typ.t \in {"TupleType", "UnionType", "Overloaded"} ->
             {typ.items[i] : i \in DOMAIN typ.items}
      [] typ.t = "TypedDictType" -> {typ.items[i][2] : i \in DOMAIN typ.items}
      [] typ.t = "TypeType" -> {typ.item}
      [] OTHER -> {}

\* typ is a partial type or has one nested in it.
RECURSIVE HasPartial(_)
HasPartial(typ) ==
    typ.t = "PartialType" \/ \E component \in Components(typ) : HasPartial(component)

MemberSnapshots(typ) == {snapshot_type(typ.items[i]) : i \in DOMAIN typ.items}

\* Two unions whose members all have snapshots, the same set of them (typA and
\* typB are two type objects when they differ).
SameMemberSnapshots ==
    /\ typA.t = "UnionType" /\ typB.t = "UnionType"
    /\ \A v \in MemberSnapshots(typA) \cup MemberSnapshots(typB) : ~IsRaise(v)
    /\ MemberSnapshots(typA) = MemberSnapshots(typB)

\* The member sequence of a union snapshot is sorted and has no duplicates.
StrictlySorted(snapshot) ==
    \A i, j \in DOMAIN snapshot.items[2].items :
        i < j => PyCmp(snapshot.items[2].items[i], snapshot.items[2].items[j]) = "lt"

\* C7 (order- and multiplicity-independence of unions): for two unions with
\* the same set of member snapshots, snapshot_type returns equal values, and
\* the member sequence in the value is sorted and has no duplicates.
UnionOrderIndependence ==
    (tpc = "done" /\ typA # typB /\ SameMemberSnapshots)
        => /\ ~IsRaise(outA) /\ ~IsRaise(outB)
           /\ outA = outB
           /\ StrictlySorted(outA)

\* C7, where snapshot_type returns: for two unions with the same set of
\* member snapshots, snapshot_type returns for both or for neither, and the
\* values it returns are equal, sorted and without duplicates.
UnionOrderIndependenceOfReturned ==
    (tpc = "done" /\ typA # typB /\ SameMemberSnapshots)
        => /\ IsRaise(outA) <=> IsRaise(outB)
           /\ ~IsRaise(outA) => (outA = outB /\ StrictlySorted(outA))

\* C8 (snapshot_type is total): snapshot_type returns a value for every
\* type, and fails only for a type that is or holds a partial type.
SnapshotTypeTotal ==
    tpc = "done"
        => /\ IsRaise(outA) <=> HasPartial(typA)
           /\ IsRaise(outB) <=> HasPartial(typB)

====
